---- MODULE Spec2Model ----
(***************************************************************************)
(* Model of Surface_Plot_3D.py: the PlotApp window with its two handlers   *)
(* browse_file and plot_data, and the three axis-title line edits.         *)
(*                                                                         *)
(* State kept by the window: the attribute data_file (absent until the     *)
(* first successful Browse), the text of file_label, and the texts of the  *)
(* three QLineEdit fields.  plot_data runs to completion inside one Qt     *)
(* slot, so it is one action; what the run did (the steps it took, the     *)
(* arrays it reshaped, the figure it built, the dialog it showed) is       *)
(* recorded in the variable out so that properties can speak about it.     *)
(* selected and tick are history variables: the last non-empty name the    *)
(* file dialog returned, and the parity of the number of plot requests.    *)
(***************************************************************************)
EXTENDS Integers, Sequences, FiniteSets

VARIABLES data_file, file_label, x_title, y_title, z_title, selected, tick, out

vars == <<data_file, file_label, x_title, y_title, z_title, selected, tick, out>>

(* ---------------------------------------------------------------- bounds *)

\* Longest table (number of data rows) drawn from Points.
MaxRows == 4

(* ------------------------------------------------------ values and inputs *)

\* hasattr(self, 'data_file') is false: the attribute does not exist yet.
NoAttr == "<no attribute>"

\* QLabel('No file selected')
NoFileSelected == "No file selected"

\* What QFileDialog.getOpenFileName can return; "" is a cancelled dialog.
FileNames == {"a.csv", "b.txt"}

DialogResults == FileNames \cup {""}

\* What the user can type into a QLineEdit.
TitleTexts == {"", "T"}

\* The names plot_data indexes the DataFrame with.
Columns == <<"X", "Y", "Z">>

ColumnSet == {Columns[i] : i \in 1..3}

\* Sample rows <<x, y, z>>: two observations at the same (x, y) with
\* different z; x, y and z differ within a row so that a mixed-up column
\* shows.  Tables with several x and y values come from ExampleRows.
Points == {<<0, 1, 2>>, <<0, 1, 4>>}

\* The rows of show_example_format's example file.
ExampleRows ==
    << <<0, 0, 0>>, <<0, 1, 1>>, <<0, 2, 4>>,
       <<1, 0, 1>>, <<1, 1, 2>>, <<1, 2, 5>>,
       <<2, 0, 4>>, <<2, 1, 5>>, <<2, 2, 6>> >>

\* Four scattered samples, two of them at the same (x, y).
MixedRows == << <<0, 1, 2>>, <<0, 1, 4>>, <<1, 0, 3>>, <<1, 2, 5>> >>

RowSeqs == UNION {[1..n -> Points] : n \in 0..MaxRows}

\* What pd.read_csv meets: a file it cannot read or parse (it raises), or a
\* table with some header columns and data rows.  A table lacking a column
\* still has rows; their entry for that column is never read.
Unreadable == [readable |-> FALSE, cols |-> {}, rows |-> <<>>]

Tables ==
    {[readable |-> TRUE, cols |-> ColumnSet, rows |-> r] :
        r \in RowSeqs \cup {ExampleRows, MixedRows}}
    \cup
    {[readable |-> TRUE, cols |-> c, rows |-> r] :
        c \in (SUBSET ColumnSet) \ {ColumnSet},
        r \in {<< <<0, 1, 2>> >>}}

FileContents == Tables \cup {Unreadable}

(* ------------------------------------------------------- pure operations *)

ColIndex(c) == CHOOSE i \in 1..3 : Columns[i] = c

\* Fault variant: a lookup that never raises KeyError (data.get with a default).
HasColumn_Always(table, c) == TRUE

HasColumn(table, c) == c \in table.cols

\* Fault variant: every column read from 'X' (a copy-and-paste slip).
ColumnValues_FirstColumn(table, c) ==
    [k \in 1..Len(table.rows) |-> table.rows[k][1]]

\* data[c].values: the column as a flat array, in file order.
ColumnValues(table, c) ==
    [k \in 1..Len(table.rows) |-> table.rows[k][ColIndex(c)]]

\* int(n ** 0.5): the floor of the square root (exact for every row count a
\* double represents exactly).
ISqrt(n) == CHOOSE g \in 0..n : g * g <= n /\ (g + 1) * (g + 1) > n

\* Fault variant: the square check left out.
IsSquare_Always(n) == TRUE

\* grid_size ** 2 != len(x) is false.
IsSquare(n) == ISqrt(n) * ISqrt(n) = n

\* Fault variants of the reshape: the row index dropped, a single-column
\* shape, and column-major (order='F') filling.
Reshape_RepeatRow(a, g) == [i \in 1..g |-> [j \in 1..g |-> a[j]]]

Reshape_Column(a, g) == [i \in 1..(g * g) |-> <<a[i]>>]

Reshape_FortranOrder(a, g) == [i \in 1..g |-> [j \in 1..g |-> a[(j - 1) * g + i]]]

\* a.reshape((g, g)), C order: element [i][j] is a[i*g + j] (0-based).
Reshape(a, g) == [i \in 1..g |-> [j \in 1..g |-> a[(i - 1) * g + j]]]

\* numpy raises ValueError when the sizes differ.
CanReshape(a, g) == Len(a) = g * g

(* ------------------------------------------------------------- plot_data *)

NoGrid == [x |-> <<>>, y |-> <<>>, z |-> <<>>]

NoTitles == [xaxis |-> "", yaxis |-> "", zaxis |-> ""]

\* The record of a run that has done nothing yet.
Blank ==
    [file |-> NoAttr, loaded |-> FALSE, input |-> Unreadable, browser |-> TRUE,
     trace |-> <<>>, reshaped |-> FALSE, grid |-> NoGrid,
     figure |-> FALSE, surface |-> NoGrid, titles |-> NoTitles,
     shown |-> FALSE, dialog |-> "none", message |-> "none"]

\* QMessageBox.warning / QMessageBox.critical followed by the handler's end.
Warn(r, msg) ==
    [r EXCEPT !.trace = Append(@, "warning"), !.dialog = "warning", !.message = msg]

Critical(r) ==
    [r EXCEPT !.trace = Append(@, "critical"), !.dialog = "critical",
              !.message = "An error occurred while plotting data"]

Step(r, name) == [r EXCEPT !.trace = Append(@, name)]

\* Lines 171-185: build the figure from the reshaped arrays, set the axis
\* titles from the line edits, show it.  pio.show raises when it cannot
\* open a browser; the handler's except clause then reports it.
Render(r, titles, browser) ==
    LET f == [Step(Step(r, "figure"), "update_layout")
                 EXCEPT !.figure = TRUE, !.surface = r.grid, !.titles = titles]
    IN  IF browser
        THEN [Step(f, "show") EXCEPT !.shown = TRUE]
        ELSE Critical(Step(f, "show"))

\* Lines 156-169: the length check, the square check and the reshape.
Gridding(r, table) ==
    LET x == ColumnValues(table, "X")
        y == ColumnValues(table, "Y")
        z == ColumnValues(table, "Z")
        grid_size == ISqrt(Len(x))
        c == Step(r, "square_check")
    IN  IF Len(x) # Len(y) \/ Len(y) # Len(z)
        THEN Warn(r, "Data length mismatch")
        ELSE IF ~IsSquare(Len(x))
        THEN Warn(c, "Data cannot be reshaped into a grid")
        ELSE IF ~CanReshape(x, grid_size)
        THEN Critical(Step(c, "reshape"))
        ELSE [Step(c, "reshape") EXCEPT
                 !.reshaped = TRUE,
                 !.grid = [x |-> Reshape(x, grid_size),
                           y |-> Reshape(y, grid_size),
                           z |-> Reshape(z, grid_size)]]

\* Lines 150-154: read the file, then index X, Y, Z in that order; the first
\* absent column raises KeyError.
Load(r, table) ==
    LET l == Step(r, "read_csv")
    IN  IF ~table.readable THEN Critical(l)
        ELSE IF ~HasColumn(table, "X") THEN Critical(Step(l, "X"))
        ELSE IF ~HasColumn(table, "Y") THEN Critical(Step(Step(l, "X"), "Y"))
        ELSE IF ~HasColumn(table, "Z")
        THEN Critical(Step(Step(Step(l, "X"), "Y"), "Z"))
        ELSE Step(Step(Step(l, "X"), "Y"), "Z")

\* The whole handler, lines 144-188, as a function of what it reads: the
\* attribute data_file, the line edits, the file's content and whether a
\* browser can be opened.
PlotRun(file, titles, content, browser) ==
    IF file = NoAttr \/ file = ""
    THEN Warn(Blank, "No data file selected")
    ELSE LET r0 == [Blank EXCEPT !.file = file, !.loaded = TRUE,
                                 !.input = content, !.browser = browser]
             r1 == Load(r0, content)
             r2 == Gridding(r1, content)
         IN  IF r1.dialog # "none" THEN r1
             ELSE IF r2.dialog # "none" THEN r2
             ELSE Render(r2, titles, browser)

(* ---------------------------------------------------------------- actions *)

Init ==
    /\ data_file = NoAttr
    /\ file_label = NoFileSelected
    /\ x_title = ""
    /\ y_title = ""
    /\ z_title = ""
    /\ selected = NoAttr
    /\ tick = 0
    /\ out = Blank

\* Fault variant: the "if file_name:" guard left out.
Chosen_Unguarded(file_name, old) == file_name

\* What browse_file stores for a dialog result.
Chosen(file_name, old) == IF file_name # "" THEN file_name ELSE old

browse_file ==
    \E file_name \in DialogResults :
        /\ file_label' = Chosen(file_name, file_label)
        /\ data_file' = Chosen(file_name, data_file)
        /\ selected' = IF file_name # "" THEN file_name ELSE selected
        /\ UNCHANGED <<x_title, y_title, z_title, tick, out>>

CurrentTitles == [xaxis |-> x_title, yaxis |-> y_title, zaxis |-> z_title]

\* Fault variant: the rows read are kept on the window and each request
\* appends to them (state shared between requests).
plot_data_accumulating ==
    \E content \in FileContents, browser \in BOOLEAN :
        /\ out' = [PlotRun(data_file, CurrentTitles,
                            [content EXCEPT !.rows = out.input.rows \o @], browser)
                      EXCEPT !.input = IF data_file = NoAttr THEN Unreadable ELSE content]
        /\ tick' = 1 - tick
        /\ UNCHANGED <<data_file, file_label, x_title, y_title, z_title, selected>>

plot_data ==
    \E content \in FileContents, browser \in BOOLEAN :
        /\ out' = PlotRun(data_file, CurrentTitles, content, browser)
        /\ tick' = 1 - tick
        /\ UNCHANGED <<data_file, file_label, x_title, y_title, z_title, selected>>

edit_x_title ==
    \E t \in TitleTexts :
        /\ x_title' = t
        /\ UNCHANGED <<data_file, file_label, y_title, z_title, selected, tick, out>>

edit_y_title ==
    \E t \in TitleTexts :
        /\ y_title' = t
        /\ UNCHANGED <<data_file, file_label, x_title, z_title, selected, tick, out>>

edit_z_title ==
    \E t \in TitleTexts :
        /\ z_title' = t
        /\ UNCHANGED <<data_file, file_label, x_title, y_title, selected, tick, out>>

Next == browse_file \/ plot_data \/ edit_x_title \/ edit_y_title \/ edit_z_title

Spec == Init /\ [][Next]_vars

(* ------------------------------------------------- vocabulary of the claims *)

\* The last request read a table that has all of X, Y, Z.
FullTable == out.loaded /\ out.input.readable /\ out.input.cols = ColumnSet

Rows == out.input.rows

RowCount == Len(Rows)

\* The request showed a warning or an error dialog.
Reported == out.dialog # "none"

\* Nothing was built: no reshaped arrays, no figure, nothing shown.
NothingBuilt == ~out.reshaped /\ ~out.figure /\ ~out.shown

PerfectSquare(n) == \E g \in 0..n : g * g = n

\* The index pairs of a 2-D array held as a sequence of rows.
Cells(a) == {<<i, j>> : i \in 1..Len(a), j \in 1..Len(a[1])}

\* The arrays handed to go.Surface, read as points <<x, y, z>> per cell.
SurfacePoint(c) ==
    <<out.surface.x[c[1]][c[2]], out.surface.y[c[1]][c[2]], out.surface.z[c[1]][c[2]]>>

SurfaceCells == IF out.surface.x = <<>> THEN {} ELSE Cells(out.surface.x)

\* a has shape r x c.
HasShape(a, r, c) == Len(a) = r /\ \A i \in 1..Len(a) : Len(a[i]) = c

RowsAt(x, y) == {k \in 1..RowCount : Rows[k][1] = x /\ Rows[k][2] = y}

CellsAt(x, y) == {c \in SurfaceCells : SurfacePoint(c)[1] = x /\ SurfacePoint(c)[2] = y}

RECURSIVE SumZ(_)
SumZ(K) == IF K = {} THEN 0
           ELSE LET k == CHOOSE k \in K : TRUE IN Rows[k][3] + SumZ(K \ {k})

SetMin(S) == CHOOSE m \in S : \A v \in S : m <= v

SetMax(S) == CHOOSE m \in S : \A v \in S : m >= v

Values(a) == {a[c[1]][c[2]] : c \in IF a = <<>> THEN {} ELSE Cells(a)}

SameX == \A k \in 1..RowCount : Rows[k][1] = Rows[1][1]

SameY == \A k \in 1..RowCount : Rows[k][2] = Rows[1][2]

(* ------------------------------------------------------------------ C1 *)

C3_EmptyRejected ==
    (FullTable /\ Rows = <<>>) => (Reported /\ NothingBuilt)

(* ------------------------------------------------------------------ C4 *)

C5_MissingColumns ==
    (out.loaded /\ out.input.readable /\ out.input.cols # ColumnSet) =>
        /\ out.dialog = "critical"
        /\ NothingBuilt
        /\ \A k \in 1..Len(out.trace) :
              out.trace[k] \notin {"square_check", "reshape", "figure", "update_layout", "show"}
        /\ \E m \in 1..3 :
              /\ Columns[m] \notin out.input.cols
              /\ \A n \in 1..(m - 1) : Columns[n] \in out.input.cols
              /\ out.trace = <<"read_csv">> \o SubSeq(Columns, 1, m) \o <<"critical">>

\* A table with X and Z but no Y has been loaded and reported.
C5_Witness ==
    /\ out.loaded /\ out.input.readable /\ out.input.cols = {"X", "Z"}
    /\ out.dialog = "critical"

(* ------------------------------------------------------------------ C6 *)

\* C6 as stated: a request that reports a failure has built nothing (no
\* reshaped arrays, no figure, nothing shown), and every request ends in
\* exactly one of: a dialog reported, the plot shown.
C6_FailFast ==
    /\ Reported => NothingBuilt
    /\ out.trace # <<>> => (Reported <=> ~out.shown)

(* ------------------------------------------------------------------ C7 *)

\* What a request produced, apart from the file name and titles it read.
Outcome(r) ==
    [dialog |-> r.dialog, message |-> r.message, reshaped |-> r.reshaped,
     grid |-> r.grid, figure |-> r.figure, surface |-> r.surface, shown |-> r.shown]

\* C7: a plot request leaves the stored file, the file label and the three
\* axis-title fields unchanged; and a request that reads the same file
\* content (with the browser in the same condition) as the request before it
\* has the same outcome, whatever was browsed, edited or plotted before.
C7_Independent ==
    [][(tick' # tick) =>
          /\ UNCHANGED <<data_file, file_label, x_title, y_title, z_title>>
          /\ (/\ out.loaded /\ out'.loaded
              /\ out'.input = out.input /\ out'.browser = out.browser)
                 => Outcome(out') = Outcome(out)]_vars

\* A plot has been shown with a title typed in, and the window still holds
\* the file, label and titles the request read.
C7_Witness ==
    /\ out.shown /\ tick = 0 /\ RowCount = 4
    /\ data_file = out.file /\ file_label = out.file
    /\ x_title = "T" /\ out.titles = CurrentTitles

(* ------------------------------------------------------------------ C8 *)

\* C8: whenever arrays are handed to the renderer for a table with at least
\* one row, the least and greatest values in the x array are the least and
\* greatest x of the rows, and likewise for the y array and the rows' y.
C8_Bounds ==
    (FullTable /\ out.figure /\ RowCount >= 1) =>
        LET xs == {Rows[k][1] : k \in 1..RowCount}
            ys == {Rows[k][2] : k \in 1..RowCount}
            gx == Values(out.surface.x)
            gy == Values(out.surface.y)
        IN  /\ gx # {} /\ gy # {}
            /\ SetMin(gx) = SetMin(xs) /\ SetMax(gx) = SetMax(xs)
            /\ SetMin(gy) = SetMin(ys) /\ SetMax(gy) = SetMax(ys)

\* The scattered four-row table has been plotted: x spans 0..1, y spans 0..2.
C8_Witness ==
    /\ FullTable /\ out.figure /\ Rows = MixedRows
    /\ SetMin(Values(out.surface.x)) = 0 /\ SetMax(Values(out.surface.x)) = 1
    /\ SetMin(Values(out.surface.y)) = 0 /\ SetMax(Values(out.surface.y)) = 2

(* ------------------------------------------------------------------ C9 *)

\* C9: for a table with all three columns and n rows, the arrays are handed
\* to the renderer if and only if n = g * g for some g; otherwise the
\* cannot-be-reshaped warning is shown and nothing is built. When they are
\* handed over, each array is g x g and its element [i][j] (0-based) is the
\* value of row i * g + j, so each row appears once, in file order.
C9_SquareGridRowMajor ==
    FullTable =>
        /\ out.figure <=> PerfectSquare(RowCount)
        /\ ~PerfectSquare(RowCount) =>
              /\ out.dialog = "warning"
              /\ out.message = "Data cannot be reshaped into a grid"
              /\ NothingBuilt
        /\ out.figure =>
              \E g \in 0..RowCount :
                  /\ g * g = RowCount
                  /\ HasShape(out.surface.x, g, g)
                  /\ HasShape(out.surface.y, g, g)
                  /\ HasShape(out.surface.z, g, g)
                  /\ \A i, j \in 0..(g - 1) :
                        /\ out.surface.x[i + 1][j + 1] = Rows[i * g + j + 1][1]
                        /\ out.surface.y[i + 1][j + 1] = Rows[i * g + j + 1][2]
                        /\ out.surface.z[i + 1][j + 1] = Rows[i * g + j + 1][3]

\* The example file has been shown: z[1][2] (0-based) is 5, the z of row 5.
C9_Witness ==
    /\ FullTable /\ out.shown /\ Rows = ExampleRows
    /\ out.surface.z[2][3] = 5 /\ out.surface.z[3][2] = 5 /\ out.surface.x[2][3] = 1

(* ----------------------------------------------------------------- C10 *)

\* The stored file and the label agree with the last non-cancelled
\* selection; before any, there is no stored file and the label is the
\* placeholder.
LabelMatches ==
    IF selected = NoAttr
    THEN data_file = NoAttr /\ file_label = NoFileSelected
    ELSE data_file = selected /\ file_label = selected /\ selected \in FileNames

\* C10: in every sequence of Browse and Show Plot events, the stored file
\* and the label always agree with the most recent non-cancelled selection
\* (a cancelled Browse changes neither); a Show Plot before any such
\* selection only shows the no-file warning and loads nothing; any other
\* Show Plot loads exactly the most recent non-cancelled selection.
C10_FileSelection ==
    /\ []LabelMatches
    /\ [][(tick' # tick) =>
             IF selected = NoAttr
             THEN /\ ~out'.loaded
                  /\ out'.trace = <<"warning">>
                  /\ out'.message = "No data file selected"
                  /\ ~out'.reshaped /\ ~out'.figure /\ ~out'.shown
             ELSE /\ out'.loaded
                  /\ out'.file = selected
                  /\ out'.trace[1] = "read_csv"]_vars

\* A file was chosen, a later file replaced it, and a request loaded the
\* later one.
C10_Witness ==
    /\ out.loaded /\ out.file = "b.txt"
    /\ selected = "a.csv" /\ data_file = "a.csv" /\ file_label = "a.csv"

====
